---------------------------- MODULE Spec2Model ----------------------------
(***************************************************************************)
(* Model of the Slider component of src/src/lib/index.js.                  *)
(*                                                                         *)
(* One mounted instance of the component, the host scheduler               *)
(* (requestAnimationFrame / cancelAnimationFrame), the window and the      *)
(* document.  A handler and the React commit it causes (the re-render and  *)
(* the effects whose dependencies changed) form one action.                *)
(*                                                                         *)
(* JavaScript values are records [k, n, d]: k is the kind, n/d the value   *)
(* of a number as a reduced fraction.  Arithmetic is exact: the rounding   *)
(* of IEEE doubles is not modelled.                                        *)
(***************************************************************************)
EXTENDS Integers, Sequences, FiniteSets, TLC

(***************************************************************************)
(* Bounds of the model: the last timestamp and the number of               *)
(* requestAnimationFrame calls of each specification, and the largest      *)
(* number of children.                                                     *)
(***************************************************************************)
MaxTime == 7
MaxRequests == 8
MaxChildren == 2
GateMaxTime == 5
GateMaxRequests == 6
LayoutMaxTime == 3
LayoutMaxRequests == 4
ThrottleMaxTime == 140
ThrottleMaxRequests == 5
LiveMaxTime == 20
LiveMaxRequests == 22

(***************************************************************************)
(* Program constants (index.js lines 4-7).                                 *)
(***************************************************************************)
TOTAL_TIME == 10000
OFFSET_TOP == 0
OFFSET_BOTTOM == 0
DEFAULT_DUPLICATES == 2

(***************************************************************************)
(* Inputs: props given at mount and the host's window and layout.          *)
(***************************************************************************)
TotalTimes == {4}
Offsets == {<<OFFSET_TOP, OFFSET_BOTTOM>>, <<30, 15>>}
RectTops == {-50, -20, 790}
Steps == {0, 1, 2}
RectHeights == {40}
InnerHeights == {800}
Layouts ==
  { [innerWidth |-> 450,  slideWidth |-> 50,  slideHeight |-> 40],
    [innerWidth |-> 450,  slideWidth |-> 500, slideHeight |-> 60],
    [innerWidth |-> 1200, slideWidth |-> 500, slideHeight |-> 60] }

(***************************************************************************)
(* JavaScript values.                                                      *)
(***************************************************************************)
RECURSIVE GCD(_, _)
GCD(a, b) == IF b = 0 THEN a ELSE GCD(b, a % b)

Abs(x) == IF x < 0 THEN -x ELSE x

Num(n, d) ==
  LET g == GCD(Abs(n), d)
  IN  [k |-> "num", n |-> n \div g, d |-> d \div g]

JsInt(i) == [k |-> "num", n |-> i, d |-> 1]
NaN == [k |-> "nan", n |-> 0, d |-> 1]
Null == [k |-> "null", n |-> 0, d |-> 1]
Undefined == [k |-> "undefined", n |-> 0, d |-> 1]
Auto == [k |-> "string", n |-> 0, d |-> 1]

\* ToNumber: null is 0, undefined and the string "auto" are NaN
ToNumber(x) ==
  CASE x.k = "null" -> JsInt(0)
    [] x.k \in {"undefined", "string"} -> NaN
    [] OTHER -> x

\* !x
Falsy(x) == x.k \in {"null", "undefined", "nan"} \/ (x.k = "num" /\ x.n = 0)

IsNum(x) == x.k = "num"

\* a < b: false when either side is NaN
Lt(a, b) ==
  LET x == ToNumber(a)
      y == ToNumber(b)
  IN  CASE x.k = "nan" \/ y.k = "nan" -> FALSE
        [] x.k = "inf" -> x.n < 0 /\ ~(y.k = "inf" /\ y.n < 0)
        [] y.k = "inf" -> y.n > 0
        [] OTHER -> x.n * y.d < y.n * x.d

Gt(a, b) == Lt(b, a)

\* a - b, a * b on finite numbers; NaN otherwise (no infinity reaches them)
Sub(a, b) ==
  LET x == ToNumber(a)
      y == ToNumber(b)
  IN  IF IsNum(x) /\ IsNum(y) THEN Num(x.n * y.d - y.n * x.d, x.d * y.d) ELSE NaN

Mul(a, b) ==
  LET x == ToNumber(a)
      y == ToNumber(b)
  IN  IF IsNum(x) /\ IsNum(y) THEN Num(x.n * y.n, x.d * y.d) ELSE NaN

\* a / b: x/0 is an infinity, 0/0 is NaN
Div(a, b) ==
  LET x == ToNumber(a)
      y == ToNumber(b)
  IN  CASE ~(IsNum(x) /\ IsNum(y)) -> NaN
        [] y.n = 0 /\ x.n = 0 -> NaN
        [] y.n = 0 -> [k |-> "inf", n |-> IF x.n < 0 THEN -1 ELSE 1, d |-> 1]
        [] y.n < 0 -> Num(-(x.n * y.d), x.d * (-y.n))
        [] OTHER -> Num(x.n * y.d, x.d * y.n)

\* Math.min(a, b)
MathMin(a, b) ==
  LET x == ToNumber(a)
      y == ToNumber(b)
  IN  CASE x.k = "nan" \/ y.k = "nan" -> NaN
        [] Lt(y, x) -> y
        [] OTHER -> x

\* the default of the fps prop (index.js line 8)
FPS == Div(JsInt(1000), JsInt(60))

\* the fps prop of the specifications that do not vary it
FpsValues == {JsInt(1)}

\* parseInt(x): the digits before the decimal point of String(x);
\* "Infinity", "NaN", "auto" have none
ParseInt(x) ==
  IF IsNum(x)
    THEN IF x.n < 0 THEN JsInt(-((-x.n) \div x.d)) ELSE JsInt(x.n \div x.d)
    ELSE NaN

VARIABLES
  phase,              \* "rendered" (first render, before effects), "mounted",
                      \* "unmounted", "crashed" (a render threw)
  now,                \* timestamp of the last frame
  innerWidth,         \* window.innerWidth
  innerHeight,        \* window.innerHeight
  slideWidth,         \* offsetWidth of each rendered slide
  slideHeight,        \* offsetHeight of each rendered slide
  rectTop,            \* getBoundingClientRect().top of the slider
  rectHeight,         \* getBoundingClientRect().height of the slider
  visibilityState,    \* document.visibilityState
  childrenLength,     \* children.length
  totalTime,          \* props
  fps,
  offsetTop,
  offsetBottom,
  sliderWidth,        \* React state
  sliderHeight,
  duplicates,
  width,              \* the memoized width of the slider's style
  translate,
  currentTime,        \* refs
  frameId,
  lastProgressStep,
  lastFrameTimestamp,
  pending,            \* the scheduler's callbacks, oldest first
  nextId,             \* the handle the next requestAnimationFrame returns
  listeners,          \* registered event listeners
  published,          \* values passed to setTranslate by the last frame callback
  lastEvent,          \* the gate handler the last step ran ("none" when it
                      \* ran none) and the pause/play calls it made
  pausedAt,           \* translate when pause() last ran
  hiddenHandled       \* handleVisibilityChange saw "hidden" and no "visible" since

envVars == <<now, innerWidth, innerHeight, slideWidth, slideHeight, rectTop,
             rectHeight, visibilityState>>
propVars == <<childrenLength, totalTime, fps, offsetTop, offsetBottom>>
layoutVars == <<sliderWidth, sliderHeight, duplicates, width>>
animVars == <<translate, currentTime, frameId, lastProgressStep,
              lastFrameTimestamp, pending, nextId, published, pausedAt>>
vars == <<phase, envVars, propVars, layoutVars, animVars, listeners, lastEvent,
          hiddenHandled>>

(***************************************************************************)
(* The animation state: React state translate, the four refs and the host  *)
(* scheduler, as one record so that the callbacks are functions on it.     *)
(***************************************************************************)
Anim ==
  [ translate |-> translate, currentTime |-> currentTime, frameId |-> frameId,
    lastProgressStep |-> lastProgressStep,
    lastFrameTimestamp |-> lastFrameTimestamp, pending |-> pending,
    nextId |-> nextId, published |-> published, pausedAt |-> pausedAt ]

SetAnim(a) ==
  /\ translate' = a.translate
  /\ currentTime' = a.currentTime
  /\ frameId' = a.frameId
  /\ lastProgressStep' = a.lastProgressStep
  /\ lastFrameTimestamp' = a.lastFrameTimestamp
  /\ pending' = a.pending
  /\ nextId' = a.nextId
  /\ published' = a.published
  /\ pausedAt' = a.pausedAt

\* frameId.current = window.requestAnimationFrame(fn): the callback is queued
\* under a fresh handle, which the caller stores in frameId
requestAnimationFrame(a, fn, timeEnlapsed) ==
  [a EXCEPT !.pending = Append(@, [id |-> a.nextId, fn |-> fn,
                                   timeEnlapsed |-> timeEnlapsed]),
            !.nextId = @ + 1,
            !.frameId = JsInt(a.nextId)]

\* cancelAnimationFrame(handle): removes the callback queued under the handle
cancelAnimationFrame(queue, handle) ==
  SelectSeq(queue, LAMBDA cb : JsInt(cb.id) # handle)

\* setTranslate(v): React ignores a state update of an unmounted component
setTranslate(a, v, isMounted) ==
  [a EXCEPT !.translate = IF isMounted THEN v ELSE @,
            !.published = Append(@, v)]

\* the effect that saves progress for play / pause
SaveProgress(a) == [a EXCEPT !.lastProgressStep = a.translate]

animateSlider(a, timestamp, T, f, isMounted) ==
  LET a1 == IF Falsy(a.currentTime)
              THEN [a EXCEPT !.currentTime = timestamp] ELSE a
      a2 == IF Falsy(a1.lastFrameTimestamp)
              THEN [a1 EXCEPT !.lastFrameTimestamp = timestamp] ELSE a1
      timeEnlapsedSinceLastFrame == Sub(timestamp, a2.lastFrameTimestamp)
      progress == MathMin(Div(Sub(timestamp, a2.currentTime), T), JsInt(1))
      a3 == [setTranslate(a2, progress, isMounted)
               EXCEPT !.lastFrameTimestamp = Null]
  IN  IF Gt(timeEnlapsedSinceLastFrame, f)
        THEN IF Lt(progress, JsInt(1))
               THEN requestAnimationFrame(a3, "animateSlider", Undefined)
               ELSE requestAnimationFrame(
                      setTranslate([a3 EXCEPT !.currentTime = Null],
                                   JsInt(0), isMounted),
                      "animateSlider", Undefined)
        ELSE requestAnimationFrame(a2, "animateSlider", Undefined)

\* play without the test of the recorded handle
play_Unguarded(a, T) ==
  requestAnimationFrame(a, "play", Mul(T, a.lastProgressStep))

pause(a) ==
  [a EXCEPT !.pending = cancelAnimationFrame(@, a.frameId),
            !.frameId = Null,
            !.pausedAt = a.translate]

play(a, T) ==
  IF Falsy(a.frameId)
    THEN requestAnimationFrame(a, "play", Mul(T, a.lastProgressStep))
    ELSE a

\* the callback play hands to requestAnimationFrame
playCallback(a, timeEnlapsed, timestamp, T, f, isMounted) ==
  animateSlider([a EXCEPT !.currentTime = Sub(timestamp, timeEnlapsed)],
                timestamp, T, f, isMounted)

\* the scheduler runs one queued callback with the frame's timestamp
RunCallback(a, cb, timestamp, T, f, isMounted) ==
  IF cb.fn = "play"
    THEN playCallback(a, cb.timeEnlapsed, timestamp, T, f, isMounted)
    ELSE animateSlider(a, timestamp, T, f, isMounted)

(***************************************************************************)
(* The visibility / viewport gate.                                         *)
(***************************************************************************)
\* the gate without the top offset
isInViewport_NoOffsetTop(boxTop, boxHeight, oTop, oBottom, windowInnerHeight) ==
  LET top == boxTop + boxHeight
      bottom == boxTop + oBottom
  IN  top > 0 /\ bottom < windowInnerHeight

isInViewport(boxTop, boxHeight, oTop, oBottom, windowInnerHeight) ==
  LET top == boxTop + boxHeight - oTop
      bottom == boxTop + oBottom
  IN  top > 0 /\ bottom < windowInnerHeight

\* a handler that resumes whenever the document is visible
handleVisibilityChange_Blind(visibility, inViewport) ==
  IF visibility = "hidden" THEN <<"pause">> ELSE <<"play">>

\* the pause / play calls each handler makes, in order
handleVisibilityChange(visibility, inViewport) ==
  (IF visibility = "hidden" THEN <<"pause">> ELSE << >>)
    \o (IF visibility = "visible" /\ inViewport THEN <<"play">> ELSE << >>)

handleViewportState(inViewport) ==
  IF ~inViewport THEN <<"pause">> ELSE <<"play">>

RECURSIVE ApplyCalls(_, _, _)
ApplyCalls(a, calls, T) ==
  IF calls = << >>
    THEN a
    ELSE ApplyCalls(IF Head(calls) = "pause" THEN pause(a) ELSE play(a, T),
                    Tail(calls), T)

(***************************************************************************)
(* Layout measurer, duplicator and render.                                 *)
(***************************************************************************)
Min(x, y) == IF x < y THEN x ELSE y

\* new Array(duplicates) throws a RangeError unless duplicates is an
\* integer >= 0
ValidArrayLength(x) == IsNum(x) /\ x.d = 1 /\ x.n >= 0

\* the slide elements the render puts under the slider: duplicates copies of
\* the children, each laid out by the host
RenderedSlides(copies, n, w, h) ==
  [i \in 1..(copies.n * n) |-> [offsetWidth |-> w, offsetHeight |-> h]]

getSlidesData(attached, slides, initialLength) ==
  IF ~attached
    THEN << >>
    ELSE [i \in 1..Min(Len(slides), initialLength) |->
            [width |-> slides[i].offsetWidth, height |-> slides[i].offsetHeight]]

RECURSIVE TotalWidth(_)
TotalWidth(slidesData) ==
  IF slidesData = << >>
    THEN 0
    ELSE TotalWidth(SubSeq(slidesData, 1, Len(slidesData) - 1))
           + slidesData[Len(slidesData)].width

RECURSIVE MaxHeight(_)
MaxHeight(slidesData) ==
  IF slidesData = << >>
    THEN 0
    ELSE LET a == MaxHeight(SubSeq(slidesData, 1, Len(slidesData) - 1))
             b == slidesData[Len(slidesData)]
         IN  IF a > b.height THEN a ELSE b.height

\* the duplicator dividing by the whole width
duplicateSlides_WholeWidth(w, windowInnerWidth) ==
  IF Lt(w, JsInt(windowInnerWidth))
    THEN ParseInt(Div(JsInt(windowInnerWidth), w))
    ELSE JsInt(DEFAULT_DUPLICATES)

\* the value duplicateSlides passes to setDuplicates
duplicateSlides(w, windowInnerWidth) ==
  IF Lt(w, JsInt(windowInnerWidth))
    THEN ParseInt(Div(JsInt(windowInnerWidth), Div(w, JsInt(2))))
    ELSE JsInt(DEFAULT_DUPLICATES)

\* the duplicate effect runs again when duplicateSlides is a new callback,
\* that is when sliderWidth changed
DuplicateEffect(oldWidth, newWidth, copies, windowInnerWidth) ==
  IF newWidth # oldWidth
    THEN duplicateSlides(newWidth, windowInnerWidth)
    ELSE copies

Listener(type, fn, captured) == [type |-> type, fn |-> fn, captured |-> captured]

\* the listeners the three subscribing effects register
Subscriptions(w, n) ==
  { Listener("resize", "duplicateSlides", w),
    Listener("resize", "updateSliderHeight", JsInt(n)),
    Listener("visibilitychange", "handleVisibilityChange", Null),
    Listener("scroll", "handleViewportState", Null) }

\* a clean-up that removes nothing
removeEventListener_Nothing(registered, l) == registered

addEventListener(registered, l) == registered \cup {l}

removeEventListener(registered, l) == registered \ {l}

\* the clean-ups of the three subscribing effects, each removing the
\* listener its effect added
CleanDuplicateEffect(registered, w) ==
  removeEventListener(registered, Listener("resize", "duplicateSlides", w))

CleanHeightEffect(registered, n) ==
  removeEventListener(registered,
                      Listener("resize", "updateSliderHeight", JsInt(n)))

CleanMountEffect(registered) ==
  removeEventListener(
    removeEventListener(registered,
                        Listener("visibilitychange", "handleVisibilityChange",
                                 Null)),
    Listener("scroll", "handleViewportState", Null))

\* the subscriptions of one commit: an effect runs in the first commit and
\* whenever its dependencies changed (duplicateSlides changes with
\* sliderWidth, updateSliderHeight and the mount effect's list with
\* children.length); React runs the clean-ups of the effects that run again
\* before it runs the effects
Resubscribe(registered, first, oldWidth, newWidth, oldN, newN) ==
  LET c1 == IF ~first /\ newWidth # oldWidth
              THEN CleanDuplicateEffect(registered, oldWidth) ELSE registered
      c2 == IF ~first /\ newN # oldN THEN CleanHeightEffect(c1, oldN) ELSE c1
      c3 == IF ~first /\ newN # oldN THEN CleanMountEffect(c2) ELSE c2
      e1 == IF first \/ newWidth # oldWidth
              THEN addEventListener(c3, Listener("resize", "duplicateSlides",
                                                 newWidth))
              ELSE c3
      e2 == IF first \/ newN # oldN
              THEN addEventListener(e1, Listener("resize", "updateSliderHeight",
                                                 JsInt(newN)))
              ELSE e1
  IN  IF first \/ newN # oldN
        THEN addEventListener(
               addEventListener(e2, Listener("visibilitychange",
                                             "handleVisibilityChange", Null)),
               Listener("scroll", "handleViewportState", Null))
        ELSE e2

\* unmounting runs the clean-up of every effect
CleanAll(registered, w, n) ==
  CleanMountEffect(CleanHeightEffect(CleanDuplicateEffect(registered, w), n))

Registered(fn) == \E l \in listeners : l.fn = fn

Event(type, calls) == [type |-> type, calls |-> calls]

(***************************************************************************)
(* Initial state: the first render, before any effect has run.             *)
(***************************************************************************)
InitWith(layouts, tops, offsets, counts, times, rates) ==
  /\ phase = "rendered"
  /\ now = 0
  /\ \E l \in layouts :
       /\ innerWidth = l.innerWidth
       /\ slideWidth = l.slideWidth
       /\ slideHeight = l.slideHeight
  /\ innerHeight \in InnerHeights
  /\ rectTop \in tops
  /\ rectHeight \in RectHeights
  /\ visibilityState = "visible"
  /\ childrenLength \in counts
  /\ totalTime \in times
  /\ fps \in rates
  /\ \E o \in offsets : offsetTop = o[1] /\ offsetBottom = o[2]
  /\ sliderWidth = Auto
  /\ sliderHeight = Auto
  /\ duplicates = JsInt(1)
  /\ width = Auto
  /\ translate = JsInt(0)
  /\ currentTime = Undefined
  /\ frameId = Undefined
  /\ lastProgressStep = Undefined
  /\ lastFrameTimestamp = Undefined
  /\ pending = << >>
  /\ nextId = 1
  /\ listeners = {}
  /\ published = << >>
  /\ lastEvent = Event("none", << >>)
  /\ pausedAt = Undefined
  /\ hiddenHandled = FALSE

InitOver(layouts, tops, offsets, counts) ==
  InitWith(layouts, tops, offsets, counts, TotalTimes, FpsValues)

\* the width memo in a render: computed anew only when sliderHeight or
\* duplicates differ from the previous render's
WidthMemo(prev, oldHeight, oldCopies, newHeight, newCopies, w) ==
  IF <<newHeight, newCopies>> # <<oldHeight, oldCopies>>
    THEN IF w.k = "string" THEN w ELSE Mul(w, newCopies)
    ELSE prev

(***************************************************************************)
(* A commit is at most two renders: the first with the state the effects   *)
(* and listeners set (duplicates being mid), the second, when the          *)
(* duplicate effect ran again, with the count it set (copies).             *)
(* A commit that ends in a render with an invalid duplicates throws; React *)
(* then unmounts the tree, which runs the effects' clean-ups.              *)
(***************************************************************************)
Commit(totalWidth, height, mid, copies, n, registered) ==
  /\ sliderWidth' = totalWidth
  /\ sliderHeight' = height
  /\ duplicates' = copies
  /\ width' = WidthMemo(WidthMemo(width, sliderHeight, duplicates, height, mid,
                                  totalWidth),
                        height, mid, height, copies, totalWidth)
  /\ IF ValidArrayLength(copies)
       THEN /\ phase' = "mounted"
            /\ listeners' = registered
       ELSE /\ phase' = "crashed"
            /\ listeners' = CleanAll(registered, totalWidth, n)

\* the effects of the first commit, in the order of their declaration, and
\* the commit of the state they set
MountEffects ==
  /\ phase = "rendered"
  /\ LET slidesData ==
           getSlidesData(TRUE,
                         RenderedSlides(duplicates, childrenLength,
                                        slideWidth, slideHeight),
                         childrenLength)
         first == duplicateSlides(sliderWidth, innerWidth)
         totalWidth == JsInt(TotalWidth(slidesData))
     IN  /\ Commit(totalWidth, JsInt(MaxHeight(slidesData)), first,
                   DuplicateEffect(sliderWidth, totalWidth, first, innerWidth),
                   childrenLength,
                   Resubscribe(Resubscribe(listeners, TRUE, sliderWidth,
                                           sliderWidth, childrenLength,
                                           childrenLength),
                               FALSE, sliderWidth, totalWidth, childrenLength,
                               childrenLength))
         /\ SetAnim(requestAnimationFrame(SaveProgress(Anim), "animateSlider",
                                          Undefined))
  /\ lastEvent' = Event("none", << >>)
  /\ UNCHANGED <<envVars, propVars, hiddenHandled>>

\* the parent renders the component with another number of children
ChildrenChange(n, maxRequests) ==
  /\ phase = "mounted"
  /\ nextId <= maxRequests
  /\ n # childrenLength
  /\ childrenLength' = n
  /\ LET slidesData ==
           getSlidesData(TRUE,
                         RenderedSlides(duplicates, n, slideWidth, slideHeight),
                         n)
         totalWidth == JsInt(TotalWidth(slidesData))
     IN  /\ Commit(totalWidth, JsInt(MaxHeight(slidesData)), duplicates,
                   DuplicateEffect(sliderWidth, totalWidth, duplicates,
                                   innerWidth),
                   n,
                   Resubscribe(listeners, FALSE, sliderWidth, totalWidth,
                               childrenLength, n))
         /\ SetAnim(requestAnimationFrame(Anim, "animateSlider", Undefined))
  /\ lastEvent' = Event("none", << >>)
  /\ UNCHANGED <<envVars, totalTime, fps, offsetTop, offsetBottom, hiddenHandled>>

\* the window is resized to another width; the host lays the slides out anew
Resize(l) ==
  /\ phase = "mounted"
  /\ l.innerWidth # innerWidth
  /\ innerWidth' = l.innerWidth
  /\ slideWidth' = l.slideWidth
  /\ slideHeight' = l.slideHeight
  /\ LET slidesData ==
           getSlidesData(TRUE,
                         RenderedSlides(duplicates, childrenLength,
                                        l.slideWidth, l.slideHeight),
                         childrenLength)
         copies ==
           IF Registered("duplicateSlides")
             THEN duplicateSlides(
                    (CHOOSE x \in listeners : x.fn = "duplicateSlides").captured,
                    l.innerWidth)
             ELSE duplicates
         height ==
           IF Registered("updateSliderHeight")
             THEN JsInt(MaxHeight(slidesData))
             ELSE sliderHeight
     IN  Commit(sliderWidth, height, copies, copies, childrenLength, listeners)
  /\ lastEvent' = Event("none", << >>)
  /\ UNCHANGED <<now, innerHeight, rectTop, rectHeight, visibilityState,
                 propVars, animVars, hiddenHandled>>

\* the scheduler runs its oldest callback, d after the previous frame
Frame(d, maxTime, maxRequests) ==
  /\ pending # << >>
  /\ now + d <= maxTime
  /\ nextId <= maxRequests
  /\ now' = now + d
  /\ LET a == RunCallback([Anim EXCEPT !.pending = Tail(@),
                                       !.published = << >>],
                          Head(pending), JsInt(now + d), JsInt(totalTime),
                          fps, phase = "mounted")
     IN  SetAnim(IF phase = "mounted" THEN SaveProgress(a) ELSE a)
  /\ lastEvent' = Event("none", << >>)
  /\ UNCHANGED <<phase, innerWidth, innerHeight, slideWidth, slideHeight,
                 rectTop, rectHeight, visibilityState, propVars, layoutVars,
                 listeners, hiddenHandled>>

\* a scroll event, after which the slider's box is at top
Scroll(top, maxRequests) ==
  /\ Registered("handleViewportState")
  /\ nextId <= maxRequests
  /\ rectTop' = top
  /\ LET calls == handleViewportState(
                    isInViewport(top, rectHeight, offsetTop, offsetBottom,
                                 innerHeight))
     IN  /\ SetAnim(ApplyCalls(Anim, calls, JsInt(totalTime)))
         /\ lastEvent' = Event("scroll", calls)
  /\ UNCHANGED <<phase, now, innerWidth, innerHeight, slideWidth, slideHeight,
                 rectHeight, visibilityState, propVars, layoutVars, listeners,
                 hiddenHandled>>

\* the document is hidden or shown
VisibilityChange(maxRequests) ==
  /\ Registered("handleVisibilityChange")
  /\ nextId <= maxRequests
  /\ visibilityState' = IF visibilityState = "visible" THEN "hidden" ELSE "visible"
  /\ LET calls == handleVisibilityChange(
                    visibilityState',
                    isInViewport(rectTop, rectHeight, offsetTop, offsetBottom,
                                 innerHeight))
     IN  /\ SetAnim(ApplyCalls(Anim, calls, JsInt(totalTime)))
         /\ lastEvent' = Event("visibilitychange", calls)
  /\ hiddenHandled' = (visibilityState' = "hidden")
  /\ UNCHANGED <<phase, now, innerWidth, innerHeight, slideWidth, slideHeight,
                 rectTop, rectHeight, propVars, layoutVars, listeners>>

\* the component is unmounted: the clean-ups of the effects run
Unmount ==
  /\ phase = "mounted"
  /\ phase' = "unmounted"
  /\ listeners' = CleanAll(listeners, sliderWidth, childrenLength)
  /\ lastEvent' = Event("none", << >>)
  /\ UNCHANGED <<envVars, propVars, layoutVars, animVars, hiddenHandled>>

NextWith(layouts, tops, counts, steps, maxTime, maxRequests) ==
  \/ MountEffects
  \/ \E n \in counts : ChildrenChange(n, maxRequests)
  \/ \E l \in layouts : Resize(l)
  \/ \E d \in steps : Frame(d, maxTime, maxRequests)
  \/ \E top \in tops : Scroll(top, maxRequests)
  \/ VisibilityChange(maxRequests)
  \/ Unmount

NextOver(layouts, tops, counts, maxTime, maxRequests) ==
  NextWith(layouts, tops, counts, Steps, maxTime, maxRequests)

(***************************************************************************)
(* Specifications.  All of them have every action; they differ in the sets *)
(* the inputs are drawn from and in how far they run: Spec runs the        *)
(* animation driver the longest, SpecGate has the viewport gate over all   *)
(* boxes and offsets, SpecLayout the measurer and the duplicator over all  *)
(* layouts and children counts.                                            *)
(***************************************************************************)
DriverLayouts == {l \in Layouts : l.slideWidth = 500}
DriverTops == {-50, -20}
DriverOffsets == {<<OFFSET_TOP, OFFSET_BOTTOM>>}
GateCounts == {1, 2}
LayoutTops == {-20}

Init == InitOver(DriverLayouts, DriverTops, DriverOffsets, 0..MaxChildren)
Next == NextOver(DriverLayouts, DriverTops, 0..MaxChildren, MaxTime, MaxRequests)
Spec == Init /\ [][Next]_vars

InitGate == InitOver(DriverLayouts, RectTops, Offsets, GateCounts)
NextGate ==
  NextOver(DriverLayouts, RectTops, GateCounts, GateMaxTime, GateMaxRequests)
SpecGate == InitGate /\ [][NextGate]_vars

InitLayout == InitOver(Layouts, LayoutTops, DriverOffsets, 0..MaxChildren)
NextLayout ==
  NextOver(Layouts, LayoutTops, 0..MaxChildren, LayoutMaxTime, LayoutMaxRequests)
SpecLayout == InitLayout /\ [][NextLayout]_vars

\* the throttle under the default configuration and under fps = 60, with
\* frames 10, 20 or 70 ms apart
ThrottleTotalTimes == {TOTAL_TIME}
ThrottleRates == {FPS, JsInt(60)}
ThrottleSteps == {10, 20, 70}

InitThrottle ==
  InitWith(DriverLayouts, DriverTops, DriverOffsets, GateCounts,
           ThrottleTotalTimes, ThrottleRates)
NextThrottle ==
  NextWith(DriverLayouts, DriverTops, GateCounts, ThrottleSteps,
           ThrottleMaxTime, ThrottleMaxRequests)
SpecThrottle == InitThrottle /\ [][NextThrottle]_vars

(***************************************************************************)
(* Claims.                                                                 *)
(***************************************************************************)
InUnitInterval(x) == IsNum(x) /\ ~Lt(x, JsInt(0)) /\ ~Gt(x, JsInt(1))

\* C1: the published progress always lies in [0,1], never decreases within
\* a cycle, and drops to 0 only in a frame callback that first published
\* exactly 1.
C1_ProgressMonotoneWithinCycle ==
  [][ /\ InUnitInterval(translate')
      /\ \A i \in 1..Len(published') : InUnitInterval(published'[i])
      /\ Lt(translate', translate) =>
           /\ translate' = JsInt(0)
           /\ published' = <<JsInt(1), JsInt(0)>> ]_vars

\* the same instance when the children count never changes
NextSingleChain == NextOver(DriverLayouts, DriverTops, {}, MaxTime, MaxRequests)
SpecSingleChain == Init /\ [][NextSingleChain]_vars

\* a step in which the scheduler ran a callback: it left the queue and its
\* successor joined it
FrameRan == Len(pending') = Len(pending) /\ nextId' = nextId + 1

Calls(e) == {e.calls[i] : i \in 1..Len(e.calls)}

C3_PlayWhileRunningIsNoOp ==
  [][ ("play" \in Calls(lastEvent') /\ ~Falsy(frameId)) =>
        UNCHANGED <<pending, nextId, frameId, currentTime, translate,
                    lastProgressStep, lastFrameTimestamp>> ]_vars

\* a handler called play and no callback of play is queued: play was called
\* while running
C3_Witness ==
  /\ lastEvent.calls = <<"play">>
  /\ pending # << >>
  /\ \A i \in 1..Len(pending) : pending[i].fn = "animateSlider"

\* C4: after unmount no frame callback of the instance is pending.
C4_NoCallbackAfterUnmount == phase = "unmounted" => pending = << >>

\* C5: while the document is hidden, after the visibility handler has seen
\* it, no frame callback is pending.
C5_PausedWhileHidden ==
  (phase = "mounted" /\ hiddenHandled) => pending = << >>

\* the gate of section 4.4 on the current box
GateOpen ==
  /\ rectTop + rectHeight - offsetTop > 0
  /\ rectTop + offsetBottom < innerHeight

\* C6: when the document becomes visible, play is called only if the
\* container is in the viewport; a paused animation out of the viewport stays
\* paused.
C6_VisibleResumesOnlyInViewport ==
  [][ (visibilityState = "hidden" /\ visibilityState' = "visible") =>
        /\ "play" \in Calls(lastEvent') => GateOpen'
        /\ (pending = << >> /\ ~GateOpen') => pending' = << >> ]_vars

C6_Witness ==
  /\ phase = "mounted"
  /\ lastEvent = Event("visibilitychange", << >>)
  /\ visibilityState = "visible"
  /\ ~GateOpen
  /\ pending = << >>

\* C7: a scroll event calls play when (boxTop + boxHeight - offsetTop) > 0
\* and (boxTop + offsetBottom) < viewportHeight, and pause otherwise.
C7_ScrollGate ==
  lastEvent.type = "scroll" =>
    IF GateOpen
      THEN lastEvent.calls = <<"play">> /\ ~Falsy(frameId)
      ELSE lastEvent.calls = <<"pause">> /\ Falsy(frameId)

C7_Witness ==
  /\ lastEvent = Event("scroll", <<"pause">>)
  /\ rectTop = -50
  /\ rectHeight = 40
  /\ offsetTop = 0
  /\ innerHeight = 800

\* C8: the duplicate count is an integer >= 2 in every state, the first
\* render included.
C8_DuplicatesAtLeastTwo ==
  IsNum(duplicates) /\ duplicates.d = 1 /\ duplicates.n >= 2

\* C9: for a measured width W > 0 and viewport width V the duplicate count is
\* floor(V / (W/2)) when W < V and 2 otherwise.
C9_DuplicateCount ==
  (phase = "mounted" /\ IsNum(sliderWidth) /\ sliderWidth.n > 0) =>
    duplicates = JsInt(IF sliderWidth.n < innerWidth
                         THEN (2 * innerWidth) \div sliderWidth.n
                         ELSE 2)

C9_Witness ==
  /\ phase = "mounted"
  /\ sliderWidth = JsInt(100)
  /\ innerWidth = 450
  /\ duplicates = JsInt(9)

\* C10: once the effects have run, a falsy strip width yields the default
\* duplicate count.
C10_FalsyWidthYieldsDefault ==
  (phase # "rendered" /\ (Falsy(sliderWidth) \/ sliderWidth = Auto)) =>
    duplicates = JsInt(DEFAULT_DUPLICATES)

\* the time the throttle of a frame callback compares: the callback's
\* timestamp less the throttle timestamp, which the callback sets to its own
\* timestamp when it is empty
TimeEnlapsedSinceLastFrame ==
  IF Falsy(lastFrameTimestamp)
    THEN JsInt(0)
    ELSE Sub(JsInt(now'), lastFrameTimestamp)

\* C11: under the default configuration and under fps = 60 alike, a frame
\* callback is accepted (publishes progress) exactly when the time it
\* compares exceeds 1000 / 60 ms.
C11_ThrottleIntervalFromFps ==
  [][ FrameRan =>
        (published' # << >>
           <=> Gt(TimeEnlapsedSinceLastFrame, Div(JsInt(1000), JsInt(60)))) ]_vars

\* C12: after unmount no listener of the instance is registered, and while
\* mounted the registered listeners are exactly the four of the latest
\* subscription: the callbacks of the current strip width and children count.
C12_ListenersPaired ==
  /\ phase \in {"unmounted", "crashed"} => listeners = {}
  /\ phase = "mounted" => listeners = Subscriptions(sliderWidth, childrenLength)

\* unmounted after a change of the children count re-ran the effects (the
\* second callback in the queue is the one the mount effect then requested)
C12_Witness ==
  /\ phase = "unmounted"
  /\ listeners = {}
  /\ Len(pending) >= 2

\* C13: once the effects of an instance with zero children have run, no
\* render has thrown: the measured width is 0, the duplicate count is a valid
\* count and the strip is rendered.
C13_ZeroChildrenRenders ==
  (childrenLength = 0 /\ phase # "rendered") =>
    /\ phase # "crashed"
    /\ sliderWidth = JsInt(0)
    /\ ValidArrayLength(duplicates)

\* C14: at most one frame callback of the instance is pending in the
\* scheduler.
C14_OneCallbackPending == Len(pending) <= 1

\* C15: a handler's pause leaves no callback pending, the handle empty and
\* the progress as it was, and changes nothing when the instance was paused
\* already; while the instance is paused (mounted with an empty handle) no
\* frame callback executes.
C15_PauseCancelsPending ==
  [][ /\ lastEvent'.calls = <<"pause">> =>
           /\ pending' = << >>
           /\ frameId' = Null
           /\ translate' = translate
           /\ (Falsy(frameId) /\ pending = << >>) =>
                UNCHANGED <<translate, currentTime, frameId, lastProgressStep,
                            lastFrameTimestamp, pending, nextId>>
      /\ (phase = "mounted" /\ Falsy(frameId)) => ~FrameRan ]_vars

\* C16: a frame callback that follows an accepted one (now is the accepted
\* callback's timestamp) publishes exactly when at least the throttle interval
\* has passed since; then it publishes min((now - cycleStart) / totalTime, 1)
\* and clears the throttle timestamp, otherwise it leaves the progress alone.
\* The interval is taken to be the value the code compares with.
C16_ThrottleSinceLastAccepted ==
  [][ (FrameRan /\ phase = "mounted" /\ published # << >>) =>
        /\ published' # << >> <=> ~Lt(JsInt(now' - now), fps)
        /\ (published' # << >> /\ Head(pending).fn = "animateSlider"
               /\ ~Falsy(currentTime)) =>
             /\ published'[1] =
                  MathMin(Div(Sub(JsInt(now'), currentTime), JsInt(totalTime)),
                          JsInt(1))
             /\ lastFrameTimestamp' = Null
        /\ published' = << >> => translate' = translate ]_vars

\* C17: after a scroll or visibility handler that called pause or play, a
\* callback is pending exactly when its last call was play; a handler that
\* called neither leaves the queue as it was.
C17_LastWriteWins ==
  [][ /\ lastEvent'.calls # << >> =>
           (pending' # << >>
              <=> lastEvent'.calls[Len(lastEvent'.calls)] = "play")
      /\ (lastEvent'.type # "none" /\ lastEvent'.calls = << >>) =>
           pending' = pending ]_vars

\* C18: in every render with a measured strip width, the width of the
\* slider's style is the current strip width times the current duplicate
\* count.
C18_RenderedWidthCurrent ==
  (phase = "mounted" /\ IsNum(sliderWidth)) =>
    width = Mul(sliderWidth, duplicates)

\* the measurement of the slides as they are rendered now
CurrentSlidesData ==
  getSlidesData(TRUE,
                RenderedSlides(duplicates, childrenLength, slideWidth,
                               slideHeight),
                childrenLength)

\* C19: while mounted, after children changes and resizes, the stored strip
\* width is the sum of the current rendered widths of the original items and
\* the stored height their current maximum height.
C19_DimensionsRefreshed ==
  phase = "mounted" =>
    /\ sliderWidth = JsInt(TotalWidth(CurrentSlidesData))
    /\ sliderHeight = JsInt(MaxHeight(CurrentSlidesData))

\* the callback whose handle frameId holds is in the scheduler's queue
HandlePending == \E i \in 1..Len(pending) : JsInt(pending[i].id) = frameId

\* C20: while the instance is mounted and not paused the callback of the
\* recorded handle is pending, and the first callback after a reset (the
\* cycle start is null) makes its own timestamp the start of the next cycle.
C20_ChainAliveAndCycleRestarts ==
  [][ /\ (phase' = "mounted" /\ ~Falsy(frameId')) => HandlePending'
      /\ (FrameRan /\ phase = "mounted" /\ currentTime = Null) =>
           currentTime' = JsInt(now') ]_vars

\* the instance left running, never paused, its children count fixed, while
\* the scheduler keeps delivering callbacks with increasing timestamps
FrameLive == \E d \in Steps \ {0} : Frame(d, LiveMaxTime, LiveMaxRequests)
NextLive == MountEffects \/ FrameLive

\* the guard of FrameLive
FrameLiveEnabled ==
  pending # << >> /\ now + 1 <= LiveMaxTime /\ nextId <= LiveMaxRequests

\* weak fairness of the effects of the first commit and of FrameLive, the
\* only step of NextLive that changes now
SpecLive ==
  /\ Init /\ [][NextLive]_vars
  /\ []<>(phase # "rendered")
  /\ ([]<>(~FrameLiveEnabled) \/ []<><<now' > now>>_now)

\* on that single chain every cycle that is under way 10 ms before the last
\* timestamp completes: a callback publishes 1 and then 0
CycleCompletesOnSingleChain ==
  (phase = "mounted" /\ now + 10 <= LiveMaxTime)
    ~> (published = <<JsInt(1), JsInt(0)>> /\ currentTime = Null)

=============================================================================
